---- MODULE Spec2Model ----
(***************************************************************************)
(* Model of incident_bundle.py: the collection run of collect_bundle and   *)
(* the pure helpers it uses (include_paths, safe_file_name, the probe      *)
(* state parsing).                                                         *)
(*                                                                         *)
(* Text is modelled as a sequence of characters.  Paths and the raw        *)
(* --include value are spelled character by character.  Output of the      *)
(* target's commands is spelled with one element per word, blank or line   *)
(* break ("READABLE", " ", "\n"), which is all the code looks at.          *)
(*                                                                         *)
(* Faults that the code does not catch (a failing write_text, a shell that *)
(* cannot be spawned, command output that is not valid UTF-8) end the      *)
(* process with a traceback and are not part of the model; the faults the  *)
(* code handles are.                                                       *)
(***************************************************************************)
EXTENDS Integers, Sequences, FiniteSets, TLC

\* ------------------------------------------------------------------ bounds
MaxLen == 4            \* longest path given to safe_file_name (SpecSafe)
MaxInclude == 2        \* most comma-separated items in --include
MaxFailures == 1       \* most commands and files that fail in one run

\* ------------------------------------------------------------- text model
WhiteSpace == {" ", "\n", "\t"}

\* [A-Za-z0-9_.-], as far as the model's alphabets reach
SafeChars == {"a", "b", "v", "0", "_", ".", "-"}

RECURSIVE lstrip(_, _)
\* str.lstrip(chars): drop every leading character that is in chars
lstrip(s, chars) ==
    IF s = <<>> THEN <<>>
    ELSE IF Head(s) \in chars THEN lstrip(Tail(s), chars)
    ELSE s

RECURSIVE rstrip(_, _)
\* str.rstrip(chars)
rstrip(s, chars) ==
    IF s = <<>> THEN <<>>
    ELSE IF s[Len(s)] \in chars THEN rstrip(SubSeq(s, 1, Len(s) - 1), chars)
    ELSE s

\* str.strip(): drop leading and trailing whitespace
strip(s) == rstrip(lstrip(s, WhiteSpace), WhiteSpace)

RECURSIVE replace_slash(_)
\* str.replace("/", "__")
replace_slash(s) ==
    IF s = <<>> THEN <<>>
    ELSE IF Head(s) = "/" THEN <<"_", "_">> \o replace_slash(Tail(s))
    ELSE <<Head(s)>> \o replace_slash(Tail(s))

RECURSIVE sub_unsafe(_)
\* re.sub(r"[^A-Za-z0-9_.-]+", "_", s): every maximal run of characters
\* outside the class becomes ONE underscore
sub_unsafe(s) ==
    IF s = <<>> THEN <<>>
    ELSE IF Head(s) \in SafeChars THEN <<Head(s)>> \o sub_unsafe(Tail(s))
    ELSE <<"_">> \o sub_unsafe(lstrip(s, {c \in {s[i] : i \in 1..Len(s)} : c \notin SafeChars}))

unknown_path == <<"u", "n", "k", "n", "o", "w", "n", "_", "p", "a", "t", "h">>

\* safe_file_name with a different regular expression: no "+", every
\* character outside the class becomes its own underscore
safe_file_name_per_char(src_path) ==
    LET cleaned == replace_slash(lstrip(strip(src_path), {"/"}))
        subbed  == [i \in 1..Len(cleaned) |->
                      IF cleaned[i] \in SafeChars THEN cleaned[i] ELSE "_"]
    IN  IF subbed = <<>> THEN unknown_path ELSE subbed

\* safe_file_name that keeps only the basename of the path
RECURSIVE basename(_)
basename(s) ==
    IF s = <<>> THEN <<>>
    ELSE IF s[Len(s)] = "/" THEN <<>>
    ELSE basename(SubSeq(s, 1, Len(s) - 1)) \o <<s[Len(s)]>>

safe_file_name_basename(src_path) ==
    LET cleaned == sub_unsafe(basename(strip(src_path)))
    IN  IF cleaned = <<>> THEN unknown_path ELSE cleaned

safe_file_name(src_path) ==
    LET cleaned == sub_unsafe(replace_slash(lstrip(strip(src_path), {"/"})))
    IN  IF cleaned = <<>> THEN unknown_path ELSE cleaned

\* ------------------------------------------------------------ include_paths
RECURSIVE split_from(_, _, _)
\* the pieces of s between commas, from the piece that starts at index start,
\* with the characters before index i already seen
split_from(s, i, start) ==
    IF i > Len(s) THEN << SubSeq(s, start, Len(s)) >>
    ELSE IF s[i] = "," THEN << SubSeq(s, start, i - 1) >> \o split_from(s, i + 1, i + 1)
    ELSE split_from(s, i + 1, start)

\* str.split(","): the pieces between commas; a text without comma is one piece
split_comma(s) == split_from(s, 1, 1)

RECURSIVE drop_empty(_)
\* [item for item in values if item]
drop_empty(items) ==
    IF items = <<>> THEN <<>>
    ELSE IF Head(items) = <<>> THEN drop_empty(Tail(items))
    ELSE <<Head(items)>> \o drop_empty(Tail(items))

include_paths(raw) ==
    LET pieces == split_comma(raw)
        values == [i \in 1..Len(pieces) |-> strip(pieces[i])]
    IN  drop_empty(values)

\* ----------------------------------------------------------- build_commands
BaseCommands ==
    << "hostnamectl", "date_iso", "uptime", "journal_errors", "dmesg_tail",
       "ss_tulpen", "df_h", "df_i", "free_m" >>

ServiceCommands == << "journal_service", "systemctl_status", "systemctl_show" >>

\* the names of the catalog, in order (the command texts are not modelled)
build_commands(svc) ==
    IF svc # "" THEN BaseCommands \o ServiceCommands ELSE BaseCommands

\* ------------------------------------------------------------------ state
VARIABLES
    mode,             \* args.mode
    host,             \* args.host ("" when not given)
    service,          \* args.service
    include,          \* args.include, the raw comma-separated text
    paths,            \* the list the file loop iterates over (line 263)
    bundle,           \* the bundle directory of this run's name on disk
    bundle0,          \* the same directory as it was when the run started
    archive,          \* the sibling .tar.gz: "none", "created" or "failed"
    pc,               \* position of collect_bundle
    connectivity,     \* outcome of check_ssh_connectivity
    layout,           \* outcome of make_bundle_layout
    command_results,  \* list of [name, returncode]
    include_results,  \* list of [path, collected, reason]
    any_failures,
    check_res,        \* CmdResult of the latest probe
    executed,         \* the commands handed to run_target, in order
    fetched,          \* per include_results entry, the stdout of its cat
    failures,         \* how many commands and files failed so far
    printed,          \* the message collect_bundle printed last
    ret,              \* value returned by collect_bundle, -1 while running
    src_path,         \* argument of safe_file_name (SpecSafe)
    cleaned           \* its result (SpecSafe)

vars == << mode, host, service, include, paths, bundle, bundle0, archive, pc,
           connectivity, layout, command_results, include_results,
           any_failures, check_res, executed, fetched, failures, printed,
           ret, src_path, cleaned >>

runVars == << mode, host, service, include, paths, bundle, bundle0, archive,
              connectivity, layout, command_results, include_results,
              any_failures, check_res, executed, fetched, failures,
              printed, ret >>

\* ----------------------------------------------------------------- inputs
SeqUpTo(S, n) == UNION {[1..k -> S] : k \in 0..n}

TimeoutCode == 124

\* exit codes a catalog command can end with
RetCodes == {0, 1, TimeoutCode}

\* exit codes of the probe and of cat
ShellCodes == {0, 1}

\* what the probe can print: nothing, one of its three words, or the word
\* after a line that the login shell's profile printed
ProbeStdouts ==
    { <<>>,
      <<"READABLE", "\n">>,
      <<"MISSING", "\n">>,
      <<"UNREADABLE", "\n">>,
      <<"banner", "\n", "READABLE", "\n">> }

Stderrs == { <<>>, <<"\n">>, <<"err", "\n">> }

CatStdouts == { <<"v1">>, <<"v2">> }

\* the items of --include: blank, a path with a leading blank, and a
\* second path with the same artifact name as the first
IncludeItems ==
    { <<" ">>, <<" ", "/", "a", "$">>, <<"/", "a", "_">> }

RECURSIVE join_comma(_)
join_comma(items) ==
    IF items = <<>> THEN <<>>
    ELSE IF Len(items) = 1 THEN Head(items)
    ELSE Head(items) \o <<",">> \o join_comma(Tail(items))

IncludeInputs == {join_comma(items) : items \in SeqUpTo(IncludeItems, MaxInclude)}

PathAlphabet == {"/", "a", "b", "_", " ", "$"}

PathInputs == SeqUpTo(PathAlphabet, MaxLen)

NoResult == [returncode |-> 0, stdout |-> <<>>, stderr |-> <<>>]

EmptyBundle ==
    [exists |-> FALSE, commands |-> FALSE, files |-> FALSE,
     logs |-> {}, artifacts |-> {}, manifest |-> "none"]

\* the directory is absent, or is there with any of its two subdirectories
BundleStates ==
    {EmptyBundle} \cup
    {[EmptyBundle EXCEPT !.exists = TRUE, !.commands = c, !.files = f] :
        c \in BOOLEAN, f \in BOOLEAN}

\* ---------------------------------------------------- pieces of the code
\* Path.mkdir(parents=True, exist_ok=False) of bundle_dir/<sub>: fails only
\* when <sub> itself exists; a missing or an existing parent are both fine
mkdir_parents(b, sub) ==
    IF sub = "commands"
    THEN [b EXCEPT !.exists = TRUE, !.commands = TRUE]
    ELSE [b EXCEPT !.exists = TRUE, !.files = TRUE]

\* make_bundle_layout with the exceptions collect_bundle catches; fault is
\* the mkdir, if any, that raises an OSError other than FileExistsError
make_bundle_layout(b, fault) ==
    IF fault = "first" THEN [result |-> "oserror", bundle |-> b]
    ELSE IF b.commands THEN [result |-> "exists", bundle |-> b]
    ELSE LET b1 == mkdir_parents(b, "commands")
         IN  IF fault = "second" THEN [result |-> "oserror", bundle |-> b1]
             ELSE IF b1.files THEN [result |-> "exists", bundle |-> b1]
             ELSE [result |-> "created", bundle |-> mkdir_parents(b1, "files")]

RECURSIVE first_line(_)
\* str.splitlines()[0] of a text that is not empty
first_line(s) ==
    IF s = <<>> THEN <<>>
    ELSE IF Head(s) = "\n" THEN <<>>
    ELSE <<Head(s)>> \o first_line(Tail(s))

\* state = (check_res.stdout.strip() or "UNKNOWN").splitlines()[0]
probe_state(stdout) ==
    LET t == strip(stdout)
    IN  first_line(IF t = <<>> THEN <<"UNKNOWN">> ELSE t)

lower_word(w) ==
    CASE w = "MISSING" -> "missing"
      [] w = "READABLE" -> "readable"
      [] w = "UNREADABLE" -> "unreadable"
      [] w = "UNKNOWN" -> "unknown"
      [] OTHER -> w

\* str.lower()
lower(s) == [i \in 1..Len(s) |-> lower_word(s[i])]

CannotInspect == <<"cannot", " ", "inspect", " ", "file">>

CatFailed == <<"cat", " ", "failed">>

\* the test of line 279
probe_failed(res, state) == res.returncode # 0 \/ state = <<"UNKNOWN">>

\* line 281 without the fallback text
probe_reason_no_default(res) == strip(res.stderr)

\* check_res.stderr.strip() or "cannot inspect file"
probe_reason(res) ==
    IF strip(res.stderr) # <<>> THEN strip(res.stderr) ELSE CannotInspect

\* line 287 with every unreadable state reported as missing
state_reason_missing(state) == <<"missing">>

\* state.lower()
state_reason(state) == lower(state)

\* cat_res.stderr.strip() or "cat failed"
cat_reason(res) ==
    IF strip(res.stderr) # <<>> THEN strip(res.stderr) ELSE CatFailed

\* write_text that leaves a file that is already there alone
write_text_keep_first(artifacts, name, content) ==
    IF \E a \in artifacts : a[1] = name THEN artifacts
    ELSE artifacts \cup {<<name, content>>}

\* Path.write_text: the file of that name now holds exactly this content
write_text(artifacts, name, content) ==
    {a \in artifacts : a[1] # name} \cup {<<name, content>>}

output_name(file_path) == safe_file_name(file_path) \o <<".", "t", "x", "t">>

\* line 307 with the test inverted
overall_status_inverted(failed) == IF failed THEN "ok" ELSE "partial"

\* overall_status = "partial" if any_failures else "ok"
overall_status(failed) == IF failed THEN "partial" ELSE "ok"

\* line 341 returning 0 whenever the archive was created
exit_code_zero(failed) == 0

\* return 1 if any_failures else 0
exit_code(failed) == IF failed THEN 1 ELSE 0

\* the run may see one more failing command or file
MayFail == failures < MaxFailures

\* ------------------------------------------------------- loop positions
\* the command loop that ends at the first failing command
after_command_stop(results, todo) ==
    IF results[Len(results)].returncode # 0 THEN "manifest"
    ELSE IF Len(results) < Len(build_commands(service)) THEN "commands"
    ELSE IF todo # <<>> THEN "files"
    ELSE "manifest"

\* where the run stands after a pass of the command loop: the loop ends
\* after the last catalog entry, and the file loop follows if it has work
after_command(results, todo) ==
    IF Len(results) < Len(build_commands(service)) THEN "commands"
    ELSE IF todo # <<>> THEN "files"
    ELSE "manifest"

\* where the run stands after a pass of the file loop
after_file(results, todo) ==
    IF Len(results) < Len(todo) THEN "files" ELSE "manifest"

\* ------------------------------------------------------------------- Init
IdleRun ==
    /\ paths = <<>>
    /\ archive = "none"
    /\ connectivity = "untested"
    /\ layout = "pending"
    /\ command_results = <<>>
    /\ include_results = <<>>
    /\ any_failures = FALSE
    /\ check_res = NoResult
    /\ executed = <<>>
    /\ fetched = <<>>
    /\ failures = 0
    /\ printed = ""
    /\ ret = -1

\* The runs that are explored: every target with every state of the
\* bundle directory; for the local target on a fresh directory, the
\* service catalog as well, and without a service every include list.
Init ==
    /\ \E target \in {<<"local", "">>, <<"ssh", "">>, <<"ssh", "h">>} :
         /\ mode = target[1]
         /\ host = target[2]
    /\ bundle \in BundleStates
    /\ bundle0 = bundle
    /\ IF mode = "local" /\ ~bundle.exists
       THEN \/ service = "" /\ include \in IncludeInputs
            \/ service = "nginx" /\ include = <<>>
       ELSE /\ service = ""
            /\ include = <<>>
    /\ pc = "start"
    /\ IdleRun
    /\ src_path = <<>>
    /\ cleaned = <<>>

\* ---------------------------------------------------------------- actions
\* collect_bundle, lines 215-227: the host and connectivity checks
CheckTarget ==
    /\ pc = "start"
    /\ IF mode = "ssh" /\ host = ""
       THEN /\ printed' = "ERROR: --host is required in ssh mode"
            /\ ret' = 2
            /\ pc' = "done"
            /\ UNCHANGED connectivity
       ELSE IF mode = "ssh"
       THEN \E ok \in BOOLEAN :
              IF ok
              THEN /\ connectivity' = "ok"
                   /\ pc' = "layout"
                   /\ UNCHANGED << printed, ret >>
              ELSE /\ connectivity' = "failed"
                   /\ printed' = "ERROR: SSH connectivity check failed"
                   /\ ret' = 2
                   /\ pc' = "done"
       ELSE /\ pc' = "layout"
            /\ UNCHANGED << connectivity, printed, ret >>
    /\ UNCHANGED << mode, host, service, include, paths, bundle, bundle0, archive,
                    layout, command_results, include_results, any_failures,
                    check_res, executed, fetched, failures, src_path, cleaned >>

\* collect_bundle, lines 229-244: the bundle directories
MakeLayout ==
    /\ pc = "layout"
    /\ \E fault \in {"none", "first", "second"} :
         LET made == make_bundle_layout(bundle, fault)
         IN  /\ bundle' = made.bundle
             /\ IF made.result = "created"
                THEN /\ layout' = "created"
                     /\ pc' = "commands"
                     /\ UNCHANGED << printed, ret >>
                ELSE /\ layout' = "failed"
                     /\ printed' =
                          (IF made.result = "exists"
                           THEN "ERROR: bundle directory already exists, try again in a second"
                           ELSE "ERROR: cannot create bundle directories")
                     /\ ret' = 2
                     /\ pc' = "done"
    /\ UNCHANGED << mode, host, service, include, paths, bundle0, archive,
                    connectivity, command_results, include_results,
                    any_failures, check_res, executed, fetched, failures,
                    src_path, cleaned >>

\* one pass of the loop of lines 246-261
RunCommand ==
    /\ pc = "commands"
    /\ LET name == build_commands(service)[Len(command_results) + 1]
       IN  \E rc \in RetCodes :
             /\ rc # 0 => MayFail
             /\ executed' = Append(executed, <<"run", name>>)
             /\ bundle' = [bundle EXCEPT !.logs = @ \cup {name}]
             /\ any_failures' = (any_failures \/ rc # 0)
             /\ failures' = failures + (IF rc # 0 THEN 1 ELSE 0)
             /\ command_results' =
                  Append(command_results, [name |-> name, returncode |-> rc])
             /\ paths' = (IF Len(command_results') = Len(build_commands(service))
                          THEN include_paths(include) ELSE paths)
             /\ pc' = after_command(command_results', paths')
    /\ UNCHANGED << mode, host, service, include, bundle0, archive,
                    connectivity, layout, include_results, check_res,
                    fetched, printed, ret, src_path, cleaned >>

\* the entry of included_files for a path that was not collected
Uncollected(file_path, reason) ==
    [path |-> file_path, collected |-> FALSE, reason |-> reason]

\* one pass of the loop of lines 263-302
CollectFile ==
    /\ pc = "files"
    /\ LET file_path == paths[Len(include_results) + 1]
           probe == <<"probe", file_path>>
       IN  \E rc \in ShellCodes, out \in ProbeStdouts, err \in Stderrs :
             LET res == [returncode |-> rc, stdout |-> out, stderr |-> err]
                 state == probe_state(out)
             IN  /\ check_res' = res
                 /\ IF probe_failed(res, state)
                    THEN /\ MayFail
                         /\ any_failures' = TRUE
                         /\ include_results' =
                              Append(include_results,
                                     Uncollected(file_path, probe_reason(res)))
                         /\ executed' = Append(executed, probe)
                         /\ fetched' = Append(fetched, <<>>)
                         /\ UNCHANGED bundle
                    ELSE IF state # <<"READABLE">>
                    THEN /\ MayFail
                         /\ any_failures' = TRUE
                         /\ include_results' =
                              Append(include_results,
                                     Uncollected(file_path, state_reason(state)))
                         /\ executed' = Append(executed, probe)
                         /\ fetched' = Append(fetched, <<>>)
                         /\ UNCHANGED bundle
                    ELSE \E crc \in ShellCodes, cout \in CatStdouts, cerr \in Stderrs :
                           LET cat_res == [returncode |-> crc, stdout |-> cout,
                                           stderr |-> cerr]
                           IN  /\ executed' =
                                    executed \o <<probe, <<"cat", file_path>>>>
                               /\ IF cat_res.returncode # 0
                                  THEN /\ MayFail
                                       /\ any_failures' = TRUE
                                       /\ include_results' =
                                            Append(include_results,
                                                   Uncollected(file_path,
                                                               cat_reason(cat_res)))
                                       /\ fetched' = Append(fetched, <<>>)
                                       /\ UNCHANGED bundle
                                  ELSE /\ bundle' =
                                            [bundle EXCEPT !.artifacts =
                                               write_text(@, output_name(file_path),
                                                          cat_res.stdout)]
                                       /\ include_results' =
                                            Append(include_results,
                                                   [path |-> file_path,
                                                    collected |-> TRUE,
                                                    reason |-> <<>>])
                                       /\ fetched' = Append(fetched, cat_res.stdout)
                                       /\ UNCHANGED any_failures
    /\ failures' =
         failures + (IF include_results'[Len(include_results')].collected THEN 0 ELSE 1)
    /\ pc' = after_file(include_results', paths)
    /\ UNCHANGED << mode, host, service, include, paths, bundle0, archive,
                    connectivity, layout, command_results, printed, ret,
                    src_path, cleaned >>

\* lines 304-323: the manifest is written before packaging
WriteManifest ==
    /\ pc = "manifest"
    /\ bundle' = [bundle EXCEPT !.manifest = overall_status(any_failures)]
    /\ pc' = "package"
    /\ UNCHANGED << mode, host, service, include, paths, bundle0, archive,
                    connectivity, layout, command_results, include_results,
                    any_failures, check_res, executed, fetched, failures,
                    printed, ret, src_path, cleaned >>

\* lines 325-341: the archive, and the return value
Package ==
    /\ pc = "package"
    /\ \E ok \in BOOLEAN :
         IF ok
         THEN /\ archive' = "created"
              /\ printed' = "Overall status"
              /\ ret' = exit_code(any_failures)
              /\ UNCHANGED bundle
         ELSE /\ archive' = "failed"
              /\ printed' = "ERROR: failed to create archive"
              /\ bundle' = [bundle EXCEPT !.manifest = "error"]
              /\ ret' = 2
    /\ pc' = "done"
    /\ UNCHANGED << mode, host, service, include, paths, bundle0, connectivity,
                    layout, command_results, include_results, any_failures,
                    check_res, executed, fetched, failures, src_path, cleaned >>

Next ==
    \/ CheckTarget
    \/ MakeLayout
    \/ RunCommand
    \/ CollectFile
    \/ WriteManifest
    \/ Package

Spec == Init /\ [][Next]_vars

\* ------------------------------------------- safe_file_name on its own
InitSafe ==
    /\ mode = "local"
    /\ host = ""
    /\ service = ""
    /\ include = <<>>
    /\ bundle = EmptyBundle
    /\ bundle0 = EmptyBundle
    /\ IdleRun
    /\ pc = "sanitize"
    /\ src_path \in PathInputs
    /\ cleaned = <<>>

\* a call of safe_file_name
Sanitize ==
    /\ pc = "sanitize"
    /\ cleaned' = safe_file_name(src_path)
    /\ pc' = "sanitized"
    /\ UNCHANGED << runVars, src_path >>

NextSafe == Sanitize

SpecSafe == InitSafe /\ [][NextSafe]_vars

\* ================================================================ claims
Catalog == build_commands(service)

Requested == include_paths(include)

ManifestWritten == bundle.manifest # "none"

AllCommandsOk ==
    /\ Len(command_results) = Len(Catalog)
    /\ \A i \in 1..Len(command_results) : command_results[i].returncode = 0

AllFilesCollected ==
    /\ Len(include_results) = Len(Requested)
    /\ \A i \in 1..Len(include_results) : include_results[i].collected

IsRun(call) == call[1] = "run"

IsProbe(call) == call[1] = "probe"

\* the arguments of some of the calls, in the order they were made
ArgumentsOf(calls) == [i \in 1..Len(calls) |-> calls[i][2]]

\* C1: once the run has ended with a manifest, overall_status is "ok"
\* exactly when every catalog command exited 0, every requested file was
\* collected and the archive was created; it is "partial" when something
\* failed and the archive was created; it is "error" when the archive
\* could not be created.
T_C1_OverallStatus ==
    (pc = "done" /\ ManifestWritten) =>
        LET all_succeeded == AllCommandsOk /\ AllFilesCollected
        IN  /\ bundle.manifest = "ok" <=> (all_succeeded /\ archive = "created")
            /\ (archive = "created" /\ ~all_succeeded) => bundle.manifest = "partial"
            /\ archive = "failed" => bundle.manifest = "error"

W_C1_PartialByFile ==
    /\ pc = "done"
    /\ archive = "created"
    /\ bundle.manifest = "partial"
    /\ AllCommandsOk
    /\ \E i \in 1..Len(include_results) : ~include_results[i].collected

\* C2: collect_bundle returns 0 exactly when everything succeeded and the
\* archive was created, 1 exactly when something failed and the archive
\* was created, and 2 exactly for a missing host in ssh mode, a failed
\* connectivity probe, a failed creation of the bundle directories or a
\* failed archive; it returns nothing else, and nothing before it ends.
T_C2_ExitCode ==
    /\ pc # "done" => ret = -1
    /\ pc = "done" =>
        LET all_succeeded == AllCommandsOk /\ AllFilesCollected
        IN  /\ ret \in {0, 1, 2}
            /\ ret = 0 <=> (archive = "created" /\ all_succeeded)
            /\ ret = 1 <=> (archive = "created" /\ ~all_succeeded)
            /\ ret = 2 <=> \/ mode = "ssh" /\ host = ""
                           \/ connectivity = "failed"
                           \/ layout = "failed"
                           \/ archive = "failed"

W_C2_ReturnsOne ==
    /\ pc = "done"
    /\ ret = 1
    /\ archive = "created"
    /\ \E i \in 1..Len(command_results) : command_results[i].returncode = TimeoutCode

\* C3: once the bundle directories exist, the catalog entries are run one
\* by one in catalog order, then the requested paths are probed one by one
\* in list order, whatever failed before; the results hold one entry per
\* entry run and per path probed, and when the manifest is written every
\* catalog entry and every requested path has its entry.
T_C3_NoFailureStopsTheRun ==
    layout = "created" =>
        LET ran == ArgumentsOf(SelectSeq(executed, IsRun))
            probed == ArgumentsOf(SelectSeq(executed, IsProbe))
            catalog == Catalog
            requested == Requested
        IN  /\ Len(ran) <= Len(catalog)
            /\ ran = SubSeq(catalog, 1, Len(ran))
            /\ Len(probed) <= Len(requested)
            /\ probed = SubSeq(requested, 1, Len(probed))
            /\ probed # <<>> => ran = catalog
            /\ \A i \in 2..Len(executed) :
                 executed[i][1] = "run" => executed[i - 1][1] = "run"
            /\ ran = [i \in 1..Len(command_results) |-> command_results[i].name]
            /\ probed = [i \in 1..Len(include_results) |-> include_results[i].path]
            /\ ManifestWritten => (ran = catalog /\ probed = requested)

W_C3_RunGoesOnAfterFailures ==
    /\ pc = "done"
    /\ ManifestWritten
    /\ command_results[1].returncode = TimeoutCode
    /\ Len(command_results) = Len(Catalog)
    /\ Len(include_results) = 2

\* C4: every entry of included_files is either collected with an empty
\* reason or not collected with a reason that is not empty.
T_C4_ReasonIffUncollected ==
    \A i \in 1..Len(include_results) :
        \/ include_results[i].collected /\ include_results[i].reason = <<>>
        \/ ~include_results[i].collected /\ include_results[i].reason # <<>>

W_C4_BlankStderr ==
    /\ include_results # <<>>
    /\ check_res.returncode = 1
    /\ check_res.stderr = <<"\n">>
    /\ ~include_results[Len(include_results)].collected
    /\ include_results[Len(include_results)].reason = CannotInspect

\* C5: when the bundle directory of this run's name is already there, the
\* run ends with exit code 2 before any command is run, and the directory
\* is left as it was.
CX_C5_ExistingDirectoryAborts ==
    (bundle0.exists /\ pc \notin {"start", "layout"}) =>
        /\ pc = "done"
        /\ ret = 2
        /\ executed = <<>>
        /\ bundle = bundle0

LastEntry == include_results[Len(include_results)]

\* the artifact names of the entries of included_files
ArtifactNames ==
    [i \in 1..Len(include_results) |-> output_name(include_results[i].path)]

\* the latest collected entry whose artifact has the name of entry i's
LastWriter(names, i) ==
    CHOOSE j \in i..Len(include_results) :
        /\ include_results[j].collected
        /\ names[j] = names[i]
        /\ \A k \in (j + 1)..Len(include_results) :
             ~(include_results[k].collected /\ names[k] = names[i])

\* C6, as claimed: at the end of the file loop, the artifact of every
\* collected entry holds the stdout of that entry's own cat.
CX_C6_ArtifactIsOwnFetch ==
    pc = "manifest" =>
        \A i \in 1..Len(include_results) :
            include_results[i].collected =>
                <<output_name(include_results[i].path), fetched[i]>> \in bundle.artifacts

\* C6, amended: at the end of the file loop, the artifact of every
\* collected entry exists, is the only file of its name, and holds the
\* stdout of the cat of the last collected entry with that artifact name
\* (its own, unless a later one wrote it).
T_C6_ArtifactIsLastFetch ==
    pc = "manifest" =>
        LET names == ArtifactNames
        IN  \A i \in 1..Len(include_results) :
                include_results[i].collected =>
                    LET content == fetched[LastWriter(names, i)]
                    IN  /\ <<names[i], content>> \in bundle.artifacts
                        /\ \A a \in bundle.artifacts : a[1] = names[i] => a[2] = content

W_C6_SameNameTwoPaths ==
    /\ pc = "manifest"
    /\ Len(include_results) = 2
    /\ include_results[1].collected
    /\ include_results[2].collected
    /\ include_results[1].path # include_results[2].path
    /\ output_name(include_results[1].path) = output_name(include_results[2].path)
    /\ fetched[1] # fetched[2]
    /\ <<output_name(include_results[1].path), fetched[2]>> \in bundle.artifacts

\* the probe ended with exit code 0 and printed this word and nothing else
Reports(res, word) == res.returncode = 0 /\ strip(res.stdout) = <<word>>

\* a pass of the file loop
FilePass == Len(include_results') = Len(include_results) + 1

\* what C7 says of one step: if it is a pass of the file loop whose probe
\* reports MISSING or UNREADABLE, it appends the uncollected entry with that
\* word in lower case, runs the probe only, leaves the bundle alone and
\* sets the failure flag
C7_Step ==
    (FilePass /\ (Reports(check_res', "MISSING") \/ Reports(check_res', "UNREADABLE"))) =>
        LET file_path == Requested[Len(include_results) + 1]
            reason == IF Reports(check_res', "MISSING")
                      THEN <<"missing">> ELSE <<"unreadable">>
        IN  /\ include_results' =
                 Append(include_results,
                        [path |-> file_path, collected |-> FALSE, reason |-> reason])
            /\ executed' = Append(executed, <<"probe", file_path>>)
            /\ bundle' = bundle
            /\ any_failures'

\* C7: a path whose probe exits 0 and reports MISSING is recorded as not
\* collected with reason "missing", one that reports UNREADABLE with reason
\* "unreadable"; in that pass no cat is run, nothing is written to the
\* bundle, and the failure flag is set.
T_C7_MissingAndUnreadable == [][C7_Step]_vars

W_C7_Unreadable ==
    /\ include_results # <<>>
    /\ Reports(check_res, "UNREADABLE")
    /\ LastEntry.reason = <<"unreadable">>
    /\ ~LastEntry.collected
    /\ bundle.artifacts = {}

\* the probe's first line of output is one of the three words
Recognized(res) ==
    first_line(strip(res.stdout)) \in {<<"MISSING">>, <<"READABLE">>, <<"UNREADABLE">>}

\* C9: a path whose probe exits non-zero or prints anything but one of the
\* three words is recorded as not collected, with the probe's stripped
\* stderr as the reason, or "cannot inspect file" when that is empty.
CX_C9_UnrecognizedProbe ==
    (include_results # <<>> /\ (check_res.returncode # 0 \/ ~Recognized(check_res))) =>
        /\ ~LastEntry.collected
        /\ LastEntry.reason =
             (IF strip(check_res.stderr) # <<>>
              THEN strip(check_res.stderr) ELSE CannotInspect)

\* ------------------------------------------------ claims on safe_file_name
IsAbsolute(p) == p # <<>> /\ p[1] = "/"

RECURSIVE Segments(_)
\* the path segments: the pieces between "/" that are not empty
Segments(p) ==
    IF p = <<>> THEN <<>>
    ELSE LET n == IF \E i \in 1..Len(p) : p[i] = "/"
                  THEN (CHOOSE i \in 1..Len(p) :
                            p[i] = "/" /\ \A j \in 1..(i - 1) : p[j] # "/") - 1
                  ELSE Len(p)
             rest == Segments(SubSeq(p, n + 2, Len(p)))
         IN  IF n = 0 THEN rest ELSE <<SubSeq(p, 1, n)>> \o rest

\* an absolute path whose segments are made of [A-Za-z0-9.-] only
IsPlainAbsolute(p) ==
    /\ IsAbsolute(p)
    /\ \A i \in 1..Len(p) : p[i] = "/" \/ p[i] \in SafeChars \ {"_"}

PlainAbsolutePaths == {q \in PathInputs : IsPlainAbsolute(q)}

\* C8, as claimed: two absolute paths with different segments never get
\* the same artifact name.
CX_C8_NoCollision ==
    (pc = "sanitized" /\ IsAbsolute(src_path)) =>
        \A q \in PathInputs :
            (IsAbsolute(q) /\ Segments(q) # Segments(src_path))
                => safe_file_name(q) # cleaned

\* C8, amended: two absolute paths whose segments are made of
\* [A-Za-z0-9.-] only (no underscore, blank or other character) and whose
\* segments differ never get the same artifact name.
T_C8_NoCollisionOfPlainPaths ==
    (pc = "sanitized" /\ IsPlainAbsolute(src_path)) =>
        \A q \in PlainAbsolutePaths :
            Segments(q) # Segments(src_path) => safe_file_name(q) # cleaned

W_C8_SharedBasename ==
    /\ pc = "sanitized"
    /\ src_path = <<"/", "a", "/", "b">>
    /\ cleaned = <<"a", "_", "_", "b">>
    /\ safe_file_name(<<"/", "b">>) = <<"b">>

\* the sanitization in three steps, as C10 words it: one leading "/" off,
\* every other "/" to "__", every character outside the class to "_"
ThreeSteps(p) ==
    LET s1 == IF p # <<>> /\ p[1] = "/" THEN Tail(p) ELSE p
        s2 == replace_slash(s1)
        s3 == [i \in 1..Len(s2) |-> IF s2[i] \in SafeChars THEN s2[i] ELSE "_"]
    IN  IF s3 = <<>> THEN unknown_path ELSE s3

RECURSIVE Flatten(_)
Flatten(pieces) ==
    IF pieces = <<>> THEN <<>> ELSE Head(pieces) \o Flatten(Tail(pieces))

\* what becomes of each character of the input: blanks at both ends and
\* the "/" in front of the first other character go, every other "/" is
\* "__", a character of the class stays, and of the other characters the
\* first of each run is "_" and the rest of the run goes
CharByChar(p) ==
    LET kept == {i \in 1..Len(p) : p[i] \notin WhiteSpace}
        lo == IF kept = {} THEN 1 ELSE CHOOSE i \in kept : \A j \in kept : i <= j
        hi == IF kept = {} THEN 0 ELSE CHOOSE i \in kept : \A j \in kept : j <= i
        inner == {i \in lo..hi : p[i] # "/"}
        start == IF inner = {} THEN hi + 1
                 ELSE CHOOSE i \in inner : \A j \in inner : i <= j
        Unsafe(i) == p[i] # "/" /\ p[i] \notin SafeChars
        piece(i) == IF p[i] = "/" THEN <<"_", "_">>
                    ELSE IF p[i] \in SafeChars THEN <<p[i]>>
                    ELSE IF i > start /\ Unsafe(i - 1) THEN <<>>
                    ELSE <<"_">>
        name == Flatten([k \in 1..(hi + 1 - start) |-> piece(start + k - 1)])
    IN  IF name = <<>> THEN unknown_path ELSE name

\* the inputs on which the three steps say what the code does: no blank at
\* either end, at most one leading "/", no two characters outside the
\* class next to each other
InThreeStepDomain(p) ==
    /\ p # <<>> => (p[1] \notin WhiteSpace /\ p[Len(p)] \notin WhiteSpace)
    /\ Len(p) >= 2 => ~(p[1] = "/" /\ p[2] = "/")
    /\ \A i \in 1..(Len(p) - 1) :
         ~(/\ p[i] # "/" /\ p[i] \notin SafeChars
           /\ p[i + 1] # "/" /\ p[i + 1] \notin SafeChars)

\* C10, as claimed: safe_file_name returns the result of the three steps.
CX_C10_ThreeSteps ==
    pc = "sanitized" => cleaned = ThreeSteps(src_path)

\* C10, amended: safe_file_name strips the blanks at both ends, removes
\* every leading "/", turns every other "/" into "__" and every run of
\* characters outside the class into one "_", and returns "unknown_path"
\* when nothing is left; it returns the result of the three steps for the
\* inputs without a blank at either end, with at most one leading "/" and
\* without two adjacent characters outside the class.
T_C10_Sanitization ==
    pc = "sanitized" =>
        /\ cleaned = CharByChar(src_path)
        /\ InThreeStepDomain(src_path) => cleaned = ThreeSteps(src_path)

W_C10_RunAndLeadingSlashes ==
    /\ pc = "sanitized"
    /\ src_path = <<"/", "/", "$", "$">>
    /\ cleaned = <<"_">>
    /\ ThreeSteps(src_path) # cleaned

====
